---- MODULE Spec2Model ----
(***************************************************************************)
(* Model of syft/messaging/plan/state.py: the State of a Plan, an ordered  *)
(* collection of Placeholders, with its hierarchical read(), set_(),       *)
(* copy(), tensors() and the simplify/detail serialisation protocol.       *)
(*                                                                         *)
(* Python objects live in heaps: a heap is a sequence and an object's      *)
(* address is its index.  Address 0 is None.                               *)
(***************************************************************************)
EXTENDS Integers, Sequences, FiniteSets, TLC

VARIABLES
  placeholder,  \* heap of Placeholder objects: [id, tags, child]
  tensor,       \* heap of values: [id, data]
  list,         \* heap of Python lists of Placeholder addresses
  state,        \* heap of State objects: [owner, state_placeholders]
  init_plan,    \* owner -> its init_plan (a plan, or None)
  plan,         \* plan -> [state, placeholders, var_count]
  registry,     \* the worker's object registry: id -> tensor address
  call,         \* the call in progress or last finished
  pre,          \* the heaps as they were when that call began
  promoted,     \* history: <<State, Placeholder>> pairs read() has promoted (lines 66-71)
  history,      \* history: the run of promoting reads, copy()'s results, the plans at the start
  nops          \* number of calls made so far, read() not counted

vars == <<placeholder, tensor, list, state, init_plan, plan, registry, call, pre,
          promoted, history, nops>>

----------------------------------------------------------------------------
(* Bounds of the model *)

MaxInner == 2   \* placeholders initially in the inner plan's State
MaxOuter == 1   \* placeholders initially in the outer plan's State
MaxCount == 1   \* largest initial var_count
MaxOps   == 1   \* calls other than read() per behaviour
MaxHeap  == 6   \* objects the Placeholder heap, and the value heap, may hold

----------------------------------------------------------------------------
(* The contexts *)

None == 0
Plans == {1, 2}          \* plan 1 is the only plan ever used as init_plan
Workers == {3}
Owners == Plans \cup Workers

EmptyMap == [k \in {} |-> 0]
MapPut(m, k, v) == [x \in DOMAIN m \cup {k} |-> IF x = k THEN v ELSE m[x]]

Range(s) == {s[k] : k \in DOMAIN s}
Min(a, b) == IF a < b THEN a ELSE b

InitTensors == << [id |-> 1, data |-> "a"], [id |-> 2, data |-> "b"] >>
\* What an initial Placeholder may be: plain, already tagged as promoted, or
\* not yet instantiated
InitKinds == { [tags |-> {}, bound |-> TRUE], [tags |-> {"#inner"}, bound |-> TRUE],
               [tags |-> {}, bound |-> FALSE] }
InitChild(a) == ((a - 1) % Len(InitTensors)) + 1

----------------------------------------------------------------------------
(* Placeholder (syft.generic.frameworks.hook.placeholder), as the           *)
(* specification describes it                                               *)

\* placeholder.copy(): a new object with the same id, tags and bound value
PlaceholderCopy(p) == [id |-> p.id, tags |-> p.tags, child |-> p.child]

\* placeholder.tag(*tags)
Tag(p, ts) == [p EXCEPT !.tags = @ \cup ts]

\* placeholder.instantiate(tensor): replaces the binding
Instantiate(p, t) == [p EXCEPT !.child = t]

\* f"#{n}"
Marker(n) == "#" \o ToString(n)

----------------------------------------------------------------------------
(* State.__init__ *)

\* `state_placeholders or []`: a non-empty list is stored by reference, None
\* or an empty list is replaced by a new empty list.  Yields the new list
\* heap and the address stored in the State.
InitList(lists, l) ==
  IF l # None /\ Len(lists[l]) > 0
    THEN [heap |-> lists, addr |-> l]
    ELSE [heap |-> Append(lists, <<>>), addr |-> Len(lists) + 1]

NewState(o, l) == [owner |-> o, state_placeholders |-> l]

Snapshot == [placeholder |-> placeholder, tensor |-> tensor, list |-> list,
             plan |-> plan, state |-> state, registry |-> registry,
             promoted |-> promoted]

\* No run of promoting reads is in progress
NoStreak == [self |-> 0, n |-> 0, len0 |-> 0, count0 |-> 0]

\* A call other than read() ends the run of consecutive reads
Interrupted == [history EXCEPT !.streak = NoStreak]

Idle == call.phase # "running"
Budget == nops < MaxOps

Begin(op, s, arg) ==
  [op |-> op, self |-> s, phase |-> "running", i |-> 1, ret |-> <<>>, arg |-> arg]

Placeholders(s) == list[state[s].state_placeholders]

----------------------------------------------------------------------------
(* State.read *)

\* Promotes without the comparison of line 64
PromotesAnyState(s) == init_plan[state[s].owner] # None

\* lines 62-64: the owner has an init_plan whose State is not this State
Promotes(s) ==
  /\ init_plan[state[s].owner] # None
  /\ plan[init_plan[state[s].owner]].state # s

\* Promoted with the positional marker taken from var_count itself
PromotedOffByOne(p, var_count) ==
  Tag([PlaceholderCopy(p) EXCEPT !.tags = {}],
      {"#inner", "#state", Marker(var_count)})

\* lines 66-68: copy, clear the tags, tag with the parent's next position
Promoted(p, var_count) ==
  Tag([PlaceholderCopy(p) EXCEPT !.tags = {}],
      {"#inner", "#state", Marker(var_count + 1)})

\* NextCount that leaves the counter where it is
NextCountSame(var_count) == var_count

\* line 71: parent_plan.var_count += 1
NextCount(var_count) == var_count + 1

\* ReadResult that also leaves out the placeholders read() has promoted
RECURSIVE ReadResultUnpromoted(_)
ReadResultUnpromoted(phs) ==
  IF phs = <<>> THEN <<>>
  ELSE LET p == placeholder[Head(phs)]
       IN  (IF "#inner" \notin p.tags /\ <<call.self, Head(phs)>> \notin pre.promoted
              THEN <<p.child>> ELSE <<>>)
             \o ReadResultUnpromoted(Tail(phs))

\* lines 73-79: the bound values of the placeholders not tagged "#inner"
RECURSIVE ReadResult(_)
ReadResult(phs) ==
  IF phs = <<>> THEN <<>>
  ELSE LET p == placeholder[Head(phs)]
       IN  (IF "#inner" \notin p.tags THEN <<p.child>> ELSE <<>>)
             \o ReadResult(Tail(phs))

ReadCall(s) ==
  /\ Idle
  /\ call' = Begin("read", s, 0)
  /\ pre' = Snapshot
  /\ history' = [history EXCEPT !.streak =
        IF ~Promotes(s) THEN NoStreak
        ELSE IF @.self = s THEN @
        ELSE LET parent == plan[init_plan[state[s].owner]]
             IN  [self |-> s, n |-> 0,
                  len0 |-> Len(list[state[parent.state].state_placeholders]),
                  count0 |-> parent.var_count]]
  /\ UNCHANGED <<placeholder, tensor, list, state, init_plan, plan, registry, promoted, nops>>

\* One iteration of the loop of lines 65-71.  The list iterator reads the
\* list's current length at every step.
ReadPromote ==
  /\ call.op = "read" /\ call.phase = "running"
  /\ Promotes(call.self)
  /\ call.i <= Len(Placeholders(call.self))
  /\ Len(placeholder) < MaxHeap
  /\ LET parent == init_plan[state[call.self].owner]
         target == state[plan[parent].state].state_placeholders
         new    == Promoted(placeholder[Placeholders(call.self)[call.i]],
                            plan[parent].var_count)
         addr   == Len(placeholder) + 1
     IN  /\ placeholder' = Append(placeholder, new)
         /\ list' = [list EXCEPT ![target] = Append(@, addr)]
         /\ IF new.child = None
              THEN \* line 70: None has no attribute id
                   /\ call' = [call EXCEPT !.phase = "raised"]
                   /\ plan' = plan
                   /\ promoted' = promoted
                   /\ history' = Interrupted
              ELSE /\ plan' = [plan EXCEPT
                        ![parent].placeholders = MapPut(@, tensor[new.child].id, addr),
                        ![parent].var_count = NextCount(@)]
                   /\ call' = [call EXCEPT !.i = @ + 1]
                   /\ promoted' = promoted \cup
                        {<<call.self, Placeholders(call.self)[call.i]>>}
                   /\ history' = history
  /\ UNCHANGED <<tensor, state, init_plan, registry, pre, nops>>

ReadReturn ==
  /\ call.op = "read" /\ call.phase = "running"
  /\ Promotes(call.self) => call.i > Len(Placeholders(call.self))
  /\ call' = [call EXCEPT !.phase = "returned",
                          !.ret = ReadResult(Placeholders(call.self))]
  /\ history' = [history EXCEPT !.streak =
        IF Promotes(call.self) THEN [@ EXCEPT !.n = Min(@ + 1, MaxHeap)] ELSE @]
  /\ UNCHANGED <<placeholder, tensor, list, state, init_plan, plan, registry, pre, promoted, nops>>

----------------------------------------------------------------------------
(* State.tensors *)

\* lines 40-44: the child of every placeholder, in order (None when unbound)
RECURSIVE TensorsOf(_)
TensorsOf(phs) ==
  IF phs = <<>> THEN <<>>
  ELSE <<placeholder[Head(phs)].child>> \o TensorsOf(Tail(phs))

Tensors(s) ==
  /\ Idle /\ Budget
  /\ call' = [Begin("tensors", s, 0) EXCEPT !.phase = "returned",
                                            !.ret = TensorsOf(Placeholders(s))]
  /\ pre' = Snapshot
  /\ nops' = nops + 1
  /\ history' = Interrupted
  /\ UNCHANGED <<placeholder, tensor, list, state, init_plan, plan, registry, promoted>>

----------------------------------------------------------------------------
(* State.clone_state_dict *)

\* tensor.clone(), as the specification describes it: a new value with the
\* same content, sharing no storage; "Tensor ids are kept" (line 48)
TensorClone(t) == [id |-> t.id, data |-> t.data]

\* The last position of phs whose placeholder has this id: in a dict
\* comprehension a later item replaces an earlier one with the same key
LastWithId(phs, id) ==
  CHOOSE k \in DOMAIN phs :
    /\ placeholder[phs[k]].id = id
    /\ \A j \in DOMAIN phs : j > k => placeholder[phs[j]].id # id

\* CloneDict without the clone(): the bound values themselves
CloneDictShared(phs, base) ==
  [id \in {placeholder[phs[k]].id : k \in DOMAIN phs} |->
     placeholder[phs[LastWithId(phs, id)]].child]

\* lines 50-52: placeholder.id -> the clone made for that placeholder; the
\* clone of the k-th placeholder is the k-th value allocated after base
CloneDict(phs, base) ==
  [id \in {placeholder[phs[k]].id : k \in DOMAIN phs} |->
     base + LastWithId(phs, id)]

\* An unbound placeholder makes line 51 raise (None has no clone); the
\* clones made before it are unreachable and left out of the heap.
CloneStateDict(s) ==
  /\ Idle /\ Budget
  /\ LET phs == Placeholders(s)
     IN  IF \E k \in DOMAIN phs : placeholder[phs[k]].child = None
           THEN /\ tensor' = tensor
                /\ call' = [Begin("clone_state_dict", s, 0) EXCEPT !.phase = "raised"]
           ELSE /\ Len(tensor) + Len(phs) <= MaxHeap
                /\ tensor' = tensor \o
                     [k \in DOMAIN phs |-> TensorClone(tensor[placeholder[phs[k]].child])]
                /\ call' = [Begin("clone_state_dict", s, 0) EXCEPT
                              !.phase = "returned",
                              !.ret = CloneDict(phs, Len(tensor))]
  /\ pre' = Snapshot
  /\ nops' = nops + 1
  /\ history' = Interrupted
  /\ UNCHANGED <<placeholder, list, state, init_plan, plan, registry, promoted>>

\* The caller changes, in place, the value it received under key k;
\* call.arg remembers the key
Mutate(k) ==
  /\ call.op = "clone_state_dict" /\ call.phase = "returned"
  /\ k \in DOMAIN call.ret
  /\ tensor' = [tensor EXCEPT ![call.ret[k]].data = "mutated"]
  /\ call' = [call EXCEPT !.arg = k]
  /\ UNCHANGED <<placeholder, list, state, init_plan, plan, registry, pre,
                 promoted, history, nops>>

----------------------------------------------------------------------------
(* State.copy and the constructor called with a caller's list *)

\* ListCopy that hands back the list itself
ListCopyAlias(lists, l) == [heap |-> lists, addr |-> l]

\* line 55, list.copy(): a new list with the same elements in the same order
ListCopy(lists, l) == [heap |-> Append(lists, lists[l]), addr |-> Len(lists) + 1]

Copy(s) ==
  /\ Idle /\ Budget
  /\ LET copied == ListCopy(list, state[s].state_placeholders)
         made   == InitList(copied.heap, copied.addr)
     IN  /\ list' = made.heap
         /\ state' = Append(state, NewState(state[s].owner, made.addr))
  /\ call' = [Begin("copy", s, 0) EXCEPT !.phase = "returned",
                                         !.ret = <<Len(state) + 1>>]
  /\ pre' = Snapshot
  /\ nops' = nops + 1
  /\ history' = [Interrupted EXCEPT !.copies = @ \cup
        {[orig |-> s, copy |-> Len(state) + 1, content |-> Placeholders(s)]}]
  /\ UNCHANGED <<placeholder, tensor, init_plan, plan, registry, promoted>>

\* State(owner=o, state_placeholders=l), l an existing list object or None
Construct(o, l) ==
  /\ Idle /\ Budget
  /\ LET made == InitList(list, l)
     IN  /\ list' = made.heap
         /\ state' = Append(state, NewState(o, made.addr))
  /\ call' = [Begin("init", Len(state) + 1, l) EXCEPT !.phase = "returned",
                                                      !.ret = <<Len(state) + 1>>]
  /\ pre' = Snapshot
  /\ nops' = nops + 1
  /\ history' = Interrupted
  /\ UNCHANGED <<placeholder, tensor, init_plan, plan, registry, promoted>>

----------------------------------------------------------------------------
(* State.set_ *)

SetKeys == { {1}, {2, 9} }
SetDicts == UNION { [K -> DOMAIN InitTensors] : K \in SetKeys }

\* SetBinding without the comparison of line 89
SetBindingAnyKey(p, d) ==
  IF DOMAIN d # {} THEN Instantiate(p, d[CHOOSE k \in DOMAIN d : TRUE]) ELSE p

\* lines 88-90, for one placeholder: rebound when its id is a key
SetBinding(p, d) ==
  IF p.id \in DOMAIN d THEN Instantiate(p, d[p.id]) ELSE p

\* After the last call the budget allows, one set_() more through a State
\* that copy() was called on or returned
SetBudget(s) ==
  \/ Budget
  \/ nops = MaxOps /\ \E c \in history.copies : s \in {c.orig, c.copy}

Set_(s, d) ==
  /\ Idle /\ SetBudget(s)
  /\ placeholder' = [a \in DOMAIN placeholder |->
                       IF a \in Range(Placeholders(s))
                         THEN SetBinding(placeholder[a], d)
                         ELSE placeholder[a]]
  /\ call' = [Begin("set_", s, d) EXCEPT !.phase = "returned"]
  /\ pre' = Snapshot
  /\ nops' = nops + 1
  /\ history' = Interrupted
  /\ UNCHANGED <<tensor, list, state, init_plan, plan, registry, promoted>>

----------------------------------------------------------------------------
(* The msgpack codec (syft.serde.msgpack.serde), as the specification      *)
(* describes it: a wire form carries an object's fields, and detailing     *)
(* builds a new object from them.                                          *)

NoneWire == [id |-> 0, data |-> "None"]

SimplifyPlaceholder(p) == [id |-> p.id, tags |-> p.tags]
DetailPlaceholder(w) == [id |-> w.id, tags |-> w.tags, child |-> None]

SimplifyTensor(t) ==
  IF t = None THEN NoneWire ELSE [id |-> tensor[t].id, data |-> tensor[t].data]
DetailTensor(w) == [id |-> w.id, data |-> w.data]

----------------------------------------------------------------------------
(* State.simplify *)

\* Simplify taking the values from read()'s selection instead of tensors()
SimplifyLocal(s) ==
  LET phs == Placeholders(s)
      ts  == ReadResult(phs)
  IN  [placeholders |-> [k \in DOMAIN phs |-> SimplifyPlaceholder(placeholder[phs[k]])],
       elements     |-> [k \in DOMAIN ts |-> SimplifyTensor(ts[k])]]

\* lines 129-133
Simplify(s) ==
  LET phs == Placeholders(s)
      ts  == TensorsOf(phs)
  IN  [placeholders |-> [k \in DOMAIN phs |-> SimplifyPlaceholder(placeholder[phs[k]])],
       elements     |-> [k \in DOMAIN ts |-> SimplifyTensor(ts[k])]]

----------------------------------------------------------------------------
(* State.detail *)

WirePlaceholders ==
  { <<>>, << [id |-> 1, tags |-> {}] >>,
    << [id |-> 1, tags |-> {}], [id |-> 2, tags |-> {"#state"}] >> }
WireElements ==
  LET a == SimplifyTensor(1)
      b == SimplifyTensor(2)
  IN  { <<>>, <<a>>, <<a, b>>, <<b, a>> }
WirePairs ==
  { [placeholders |-> p, elements |-> e] : p \in WirePlaceholders, e \in WireElements }

\* Objects the codec allocates for the elements: None stays None
NotNone(w) == w # NoneWire
ElementAddr(elements, base, k) ==
  IF elements[k] = NoneWire THEN None
  ELSE base + Len(SelectSeq(SubSeq(elements, 1, k), NotNone))

\* lines 146-147: register every element under its own id, in order; a
\* None element has no id.  Yields the registry and whether the loop raised.
RECURSIVE RegisterAll(_, _, _, _)
RegisterAll(reg, elements, base, k) ==
  IF k > Len(elements) THEN [registry |-> reg, raised |-> FALSE]
  ELSE IF elements[k] = NoneWire THEN [registry |-> reg, raised |-> TRUE]
  ELSE RegisterAll(MapPut(reg, elements[k].id, ElementAddr(elements, base, k)),
                   elements, base, k + 1)

\* ZipBind pairing each placeholder with the element that carries its id
ZipBindById(phs, elements, addrs) ==
  [k \in DOMAIN phs |->
     IF \E j \in DOMAIN elements : elements[j].id = phs[k].id
       THEN Instantiate(phs[k],
              addrs[CHOOSE j \in DOMAIN elements : elements[j].id = phs[k].id])
       ELSE phs[k]]

\* lines 149-150: zip pairs by position and stops at the shorter sequence;
\* addrs[k] is the object detailed from elements[k]
ZipBind(phs, elements, addrs) ==
  [k \in DOMAIN phs |->
     IF k <= Min(Len(phs), Len(addrs)) THEN Instantiate(phs[k], addrs[k]) ELSE phs[k]]

DoDetail(w, pair, src) ==
  /\ Idle /\ Budget
  /\ LET elems  == SelectSeq(pair.elements, NotNone)
         n      == Len(pair.placeholders)
         pbase  == Len(placeholder)
         tbase  == Len(tensor)
         addrs  == [k \in DOMAIN pair.elements |-> ElementAddr(pair.elements, tbase, k)]
         fresh  == [k \in 1..n |-> DetailPlaceholder(pair.placeholders[k])]
         reg    == RegisterAll(registry, pair.elements, tbase, 1)
         made   == InitList(Append(list, [k \in 1..n |-> pbase + k]), Len(list) + 1)
     IN  /\ pbase + n <= MaxHeap
         /\ tbase + Len(elems) <= MaxHeap
         /\ tensor' = tensor \o [k \in DOMAIN elems |-> DetailTensor(elems[k])]
         /\ registry' = reg.registry
         /\ IF reg.raised
              THEN /\ placeholder' = placeholder \o fresh
                   /\ list' = Append(list, [k \in 1..n |-> pbase + k])
                   /\ state' = state
                   /\ call' = [Begin("detail", 0, [pair |-> pair, src |-> src, worker |-> w])
                                 EXCEPT !.phase = "raised"]
              ELSE /\ placeholder' = placeholder \o ZipBind(fresh, pair.elements, addrs)
                   /\ list' = made.heap
                   /\ state' = Append(state, NewState(w, made.addr))
                   /\ call' = [Begin("detail", 0, [pair |-> pair, src |-> src, worker |-> w])
                                 EXCEPT !.phase = "returned",
                                        !.ret = <<Len(state) + 1>>]
  /\ pre' = Snapshot
  /\ nops' = nops + 1
  /\ history' = Interrupted
  /\ UNCHANGED <<init_plan, plan, promoted>>

\* detail of a pair received from elsewhere
Detail(w, pair) == DoDetail(w, pair, None)

\* detail(worker, simplify(worker, state))
RoundTrip(w, s) == DoDetail(w, Simplify(s), s)

----------------------------------------------------------------------------

Init ==
  \E n1 \in 0..MaxOuter, n2 \in 0..MaxInner :
    \E kind \in [1..(n1 + n2) -> InitKinds],
       ip \in [Owners -> {None, 1}],
       c \in 0..MaxCount :
      /\ placeholder = [a \in 1..(n1 + n2) |-> [id |-> a, tags |-> kind[a].tags,
             child |-> IF kind[a].bound THEN InitChild(a) ELSE None]]
      /\ tensor = InitTensors
      /\ list = << [k \in 1..n1 |-> k], [k \in 1..n2 |-> n1 + k] >>
      /\ state = << NewState(1, 1), NewState(2, 2) >>
      /\ init_plan = ip
      /\ plan = [p \in Plans |-> [state |-> p, placeholders |-> EmptyMap, var_count |-> c]]
      /\ registry = EmptyMap
      /\ call = [op |-> "none", self |-> 0, phase |-> "returned", i |-> 1,
                 ret |-> <<>>, arg |-> 0]
      /\ promoted = {}
      /\ history = [streak |-> NoStreak, copies |-> {},
                    len0 |-> [p \in Plans |-> Len(list[p])],
                    count0 |-> [p \in Plans |-> c]]
      /\ pre = [placeholder |-> placeholder, tensor |-> tensor, list |-> list,
                plan |-> plan, state |-> state, registry |-> registry,
                promoted |-> {}]
      /\ nops = 0

Next ==
  \/ \E s \in DOMAIN state : ReadCall(s)
  \/ ReadPromote
  \/ ReadReturn
  \/ \E s \in DOMAIN state : Tensors(s)
  \/ \E s \in DOMAIN state : CloneStateDict(s)
  \/ \E k \in DOMAIN call.ret : Mutate(k)
  \/ \E s \in DOMAIN state : Copy(s)
  \/ \E o \in Plans, l \in DOMAIN list \cup {None} : Construct(o, l)
  \/ \E s \in DOMAIN state, d \in SetDicts : Set_(s, d)
  \/ \E w \in Workers, pair \in WirePairs : Detail(w, pair)
  \/ \E w \in Workers, s \in DOMAIN state : RoundTrip(w, s)

Spec == Init /\ [][Next]_vars

----------------------------------------------------------------------------
(* What the claims speak of *)

Returned(op) == call.op = op /\ call.phase = "returned"

\* The owner of s has an ancestor plan whose State is another State
HasAncestor(s) ==
  /\ init_plan[state[s].owner] # None
  /\ plan[init_plan[state[s].owner]].state # s

Ancestor(s) == init_plan[state[s].owner]
AncestorList(s) == state[plan[Ancestor(s)].state].state_placeholders
OwnList(s) == state[s].state_placeholders

\* "#n" as written out
MarkerText(n) == <<"#1", "#2", "#3", "#4", "#5", "#6", "#7", "#8", "#9">>[n]

NotInner(a) == "#inner" \notin placeholder[a].tags
\* The children of the placeholders of l that are not tagged "#inner"
LocalValues(l) ==
  LET kept == SelectSeq(l, NotInner)
  IN  [k \in DOMAIN kept |-> placeholder[kept[k]].child]

----------------------------------------------------------------------------
(* C3: when read() on an inner State with K placeholders, whose owner has  *)
(* an ancestor plan with another State and slot counter C, returns, the    *)
(* ancestor's counter is C+K, exactly K placeholders were appended to the  *)
(* ancestor's state_placeholders in the inner State's order, the j-th      *)
(* carries exactly the tags "#inner", "#state" and "#(C+j)", and the       *)
(* placeholders the ancestor had before keep their tags and position.      *)
C3_Promotion ==
  (Returned("read") /\ HasAncestor(call.self)) =>
    LET s      == call.self
        inner  == pre.list[OwnList(s)]
        K      == Len(inner)
        C      == pre.plan[Ancestor(s)].var_count
        before == pre.list[AncestorList(s)]
        after  == list[AncestorList(s)]
    IN  /\ plan[Ancestor(s)].var_count = C + K
        /\ Len(after) = Len(before) + K
        /\ SubSeq(after, 1, Len(before)) = before
        /\ \A j \in 1..K :
             LET new == placeholder[after[Len(before) + j]]
                 old == pre.placeholder[inner[j]]
             IN  /\ new.tags = {"#inner", "#state", MarkerText(C + j)}
                 /\ new.id = old.id
                 /\ new.child = old.child
                 /\ after[Len(before) + j] \notin DOMAIN pre.placeholder
        /\ \A k \in 1..Len(before) :
             placeholder[before[k]].tags = pre.placeholder[before[k]].tags

C3_Witness ==
  /\ Returned("read") /\ HasAncestor(call.self)
  /\ Len(pre.list[OwnList(call.self)]) = 2
  /\ Len(pre.list[AncestorList(call.self)]) = 1
  /\ pre.plan[Ancestor(call.self)].var_count = 1

----------------------------------------------------------------------------
(* C4, as stated: a second read() on an inner State returns a value list   *)
(* that leaves out the values of the placeholders an earlier read() of     *)
(* that State promoted.                                                    *)
C4_SecondReadExcludesPromoted ==
  (Returned("read") /\ HasAncestor(call.self)) =>
    LET s    == call.self
        Local(a) == NotInner(a) /\ <<s, a>> \notin pre.promoted
        kept == SelectSeq(list[OwnList(s)], Local)
    IN  call.ret = [k \in DOMAIN kept |-> placeholder[kept[k]].child]

(* C4, amended: a second read() on an inner State returns the values of    *)
(* all its placeholders not tagged "#inner", those an earlier read()       *)
(* promoted included: they are still in the inner State's                  *)
(* state_placeholders with the tags they had, and the "#inner" tag is on   *)
(* the copies in the ancestor's State.                                     *)
C4_SecondReadReturnsPromoted ==
  (Returned("read") /\ HasAncestor(call.self)) =>
    LET s == call.self
        again == {a \in Range(list[OwnList(s)]) : <<s, a>> \in pre.promoted}
    IN  /\ call.ret = LocalValues(list[OwnList(s)])
        /\ \A a \in again :
             /\ placeholder[a].tags = pre.placeholder[a].tags
             /\ NotInner(a) => placeholder[a].child \in Range(call.ret)
        /\ \A k \in (Len(pre.list[AncestorList(s)]) + 1)..Len(list[AncestorList(s)]) :
             "#inner" \in placeholder[list[AncestorList(s)][k]].tags

C4_Witness ==
  /\ Returned("read") /\ HasAncestor(call.self)
  /\ \E a \in Range(list[OwnList(call.self)]) :
       /\ <<call.self, a>> \in pre.promoted
       /\ NotInner(a)
       /\ placeholder[a].child # None
       /\ placeholder[a].child \in Range(call.ret)

----------------------------------------------------------------------------
(* C8: read() on a State whose owner has no init_plan, or whose            *)
(* init_plan's State is this very State, changes no State, plan or map,    *)
(* raises nothing, and returns in order the children of the placeholders   *)
(* of this State that are not tagged "#inner".                             *)
C8_ReadWithoutAncestor ==
  (call.op = "read" /\ ~HasAncestor(call.self)) =>
    /\ placeholder = pre.placeholder
    /\ list = pre.list
    /\ state = pre.state
    /\ plan = pre.plan
    /\ registry = pre.registry
    /\ call.phase # "raised"
    /\ call.phase = "returned" => call.ret = LocalValues(list[OwnList(call.self)])

C8_Witness ==
  /\ Returned("read")
  /\ init_plan[state[call.self].owner] # None
  /\ plan[init_plan[state[call.self].owner]].state = call.self
  /\ Len(call.ret) = 1
  /\ Len(list[OwnList(call.self)]) = 1

----------------------------------------------------------------------------
(* C9: read() never modifies the State it is called on: during and after   *)
(* a promoting read() that does not raise, the called State's              *)
(* state_placeholders has the length, order and elements (id, tags, bound  *)
(* value) it had before.                                                   *)
C9_ReadLeavesSelf ==
  (call.op = "read" /\ call.phase # "raised" /\ HasAncestor(call.self)) =>
    /\ list[OwnList(call.self)] = pre.list[OwnList(call.self)]
    /\ \A a \in Range(pre.list[OwnList(call.self)]) :
         placeholder[a] = pre.placeholder[a]

----------------------------------------------------------------------------
(* C6: the placeholders of every State have pairwise distinct ids, in      *)
(* every state reached by calls none of which raised.                      *)
UniqueIds(l) ==
  \A j, k \in DOMAIN l : j # k => placeholder[l[j]].id # placeholder[l[k]].id

C6_UniqueIds ==
  call.phase # "raised" => \A s \in DOMAIN state : UniqueIds(list[OwnList(s)])

----------------------------------------------------------------------------
(* C5: set_(state_dict) rebinds every placeholder of the State whose id is *)
(* a key to the dict's value for that id, leaves the other placeholders'   *)
(* bindings, and the length, order, ids and tags of state_placeholders,    *)
(* unchanged, and raises nothing for a key that matches no placeholder.    *)
C5_SetRebinds ==
  call.op = "set_" =>
    LET s == call.self
        d == call.arg
        before == pre.list[OwnList(s)]
        after  == list[OwnList(s)]
    IN  /\ call.phase = "returned"
        /\ after = before
        /\ \A k \in DOMAIN after :
             LET new == placeholder[after[k]]
                 old == pre.placeholder[after[k]]
             IN  /\ new.id = old.id
                 /\ new.tags = old.tags
                 /\ new.child = IF old.id \in DOMAIN d THEN d[old.id] ELSE old.child

C5_Witness ==
  /\ Returned("set_")
  /\ \E k \in DOMAIN call.arg : \A a \in Range(list[OwnList(call.self)]) :
       placeholder[a].id # k
  /\ \E a \in Range(list[OwnList(call.self)]) :
       /\ placeholder[a].id \in DOMAIN call.arg
       /\ placeholder[a].child # pre.placeholder[a].child
  /\ \E a \in Range(list[OwnList(call.self)]) :
       /\ placeholder[a].id \notin DOMAIN call.arg
       /\ placeholder[a].child # None

----------------------------------------------------------------------------
(* C7: tensors() on a State with an unbound placeholder ends in a failure; *)
(* it never returns a list.                                                *)
C7_TensorsUnboundFails ==
  (call.op = "tensors"
     /\ \E a \in Range(pre.list[OwnList(call.self)]) : pre.placeholder[a].child = None)
    => call.phase = "raised"

----------------------------------------------------------------------------
(* C2: detail of a pair whose placeholder sequence and value sequence have *)
(* different lengths ends in an error; it never returns a State.           *)
C2_MismatchRaises ==
  (call.op = "detail"
     /\ Len(call.arg.pair.placeholders) # Len(call.arg.pair.elements))
    => call.phase = "raised"

----------------------------------------------------------------------------
(* C1: for a State whose N placeholders are all bound,                     *)
(* detail(worker, simplify(worker, state)) returns a State owned by worker *)
(* with N placeholders, the i-th bound to a value with the content of the  *)
(* i-th value of the original, and each of these values is in the worker's *)
(* registry under its own id.                                              *)
AllBoundBefore(s) ==
  \A a \in Range(pre.list[OwnList(s)]) : pre.placeholder[a].child # None

----------------------------------------------------------------------------
(* C10: detail binds by position, never by identity: when the two          *)
(* sequences have the same length, the placeholder at index i of the       *)
(* returned State is the one detailed from index i of the placeholder      *)
(* sequence and is bound to the value detailed from index i of the value   *)
(* sequence, whatever the ids are.                                         *)
C10_Positional ==
  (Returned("detail")
     /\ Len(call.arg.pair.placeholders) = Len(call.arg.pair.elements)) =>
    LET pair == call.arg.pair
        new  == list[OwnList(call.ret[1])]
    IN  /\ Len(new) = Len(pair.placeholders)
        /\ \A i \in DOMAIN new :
             /\ placeholder[new[i]].id = pair.placeholders[i].id
             /\ placeholder[new[i]].child # None
             /\ tensor[placeholder[new[i]].child].id = pair.elements[i].id
             /\ tensor[placeholder[new[i]].child].data = pair.elements[i].data

C10_Witness ==
  /\ Returned("detail") /\ call.arg.src = None
  /\ Len(call.arg.pair.placeholders) = 2
  /\ Len(call.arg.pair.elements) = 2
  /\ call.arg.pair.placeholders[1].id = call.arg.pair.elements[2].id
  /\ call.arg.pair.placeholders[2].id = call.arg.pair.elements[1].id
  /\ tensor[placeholder[list[OwnList(call.ret[1])][1]].child].id
       = call.arg.pair.elements[1].id

----------------------------------------------------------------------------
(* C15: the ancestor's identity map stays consistent with its State: after *)
(* any read() and set_() calls, none of which raised, every entry k -> p   *)
(* of a plan's placeholders map has p in the plan's State and k the id of  *)
(* the value now bound to p.                                               *)
C15_MapConsistent ==
  call.phase # "raised" =>
    \A q \in Plans : \A k \in DOMAIN plan[q].placeholders :
      LET a == plan[q].placeholders[k]
      IN  /\ a \in Range(list[state[plan[q].state].state_placeholders])
          /\ placeholder[a].child # None
          /\ tensor[placeholder[a].child].id = k

----------------------------------------------------------------------------
(* C16: every read() ends after appending to the ancestor exactly as many  *)
(* placeholders as the called State held when the call began: while it     *)
(* runs and does not raise, it has appended no more than that, whichever   *)
(* way the States were constructed.                                        *)
C16_ReadAppendsOwnLength ==
  (call.op = "read" /\ call.phase # "raised" /\ HasAncestor(call.self)) =>
    Len(list[AncestorList(call.self)]) - Len(pre.list[AncestorList(call.self)])
      <= Len(pre.list[OwnList(call.self)])

----------------------------------------------------------------------------
(* C13: when the n-th of n consecutive read() calls on one inner State     *)
(* with K placeholders returns (its ancestor's State another State, of     *)
(* length L and counter C before the first of them, no other call in       *)
(* between), the ancestor's state_placeholders has L + n*K entries, the    *)
(* counter is C + n*K, and the j-th entry appended by the m-th read        *)
(* carries the marker "#(C+(m-1)*K+j)".                                    *)
C13_RepeatedReads ==
  (Returned("read") /\ HasAncestor(call.self)
     /\ history.streak.self = call.self) =>
    LET s     == call.self
        n     == history.streak.n
        L     == history.streak.len0
        C     == history.streak.count0
        K     == Len(list[OwnList(s)])
        after == list[AncestorList(s)]
    IN  /\ n >= 1
        /\ Len(after) = L + n * K
        /\ plan[Ancestor(s)].var_count = C + n * K
        /\ \A m \in 1..n : \A j \in 1..K :
             placeholder[after[L + (m - 1) * K + j]].tags =
               {"#inner", "#state", MarkerText(C + (m - 1) * K + j)}

\* A second consecutive promoting read of two placeholders has returned
C13_Witness ==
  /\ Returned("read") /\ HasAncestor(call.self)
  /\ history.streak.self = call.self
  /\ history.streak.n = 2
  /\ Len(list[OwnList(call.self)]) = 2

----------------------------------------------------------------------------
(* C14: with the reads of the inner States of one ancestor plan run one at *)
(* a time, whenever a call has returned the T placeholders promoted into   *)
(* the ancestor's State carry, in append order, the markers "#(C+1)" ..    *)
(* "#(C+T)" (so they are pairwise distinct), and the ancestor's counter is *)
(* C+T, C being the counter the plan started with.                         *)
C14_MarkersInOrder ==
  call.phase = "returned" =>
    \A q \in Plans :
      LET l == list[state[plan[q].state].state_placeholders]
          L == history.len0[q]
          C == history.count0[q]
          T == Len(l) - L
      IN  /\ plan[q].var_count = C + T
          /\ \A t \in 1..T :
               placeholder[l[L + t]].tags = {"#inner", "#state", MarkerText(C + t)}

----------------------------------------------------------------------------
(* C12: when clone_state_dict() has returned, the keys of the mapping are  *)
(* exactly the ids of the State's placeholders, each value is a new object *)
(* that no placeholder is bound to and that, until the caller changes it,  *)
(* equals the value bound to a placeholder of that id; the call changed    *)
(* nothing of the State, and whatever the caller then does to the returned *)
(* values, every value that existed before the call is as it was.          *)
C12_CloneIndependent ==
  Returned("clone_state_dict") =>
    LET s   == call.self
        phs == pre.list[OwnList(s)]
        d   == call.ret
    IN  /\ DOMAIN d = {pre.placeholder[phs[k]].id : k \in DOMAIN phs}
        /\ \A k \in DOMAIN d :
             /\ d[k] \notin DOMAIN pre.tensor
             /\ \A a \in DOMAIN placeholder : placeholder[a].child # d[k]
             /\ \A j \in DOMAIN d : j # k => d[j] # d[k]
             /\ call.arg = 0 =>
                  \E j \in DOMAIN phs :
                    /\ pre.placeholder[phs[j]].id = k
                    /\ tensor[d[k]] = pre.tensor[pre.placeholder[phs[j]].child]
        /\ placeholder = pre.placeholder /\ list = pre.list
        /\ state = pre.state /\ plan = pre.plan
        /\ \A t \in DOMAIN pre.tensor : tensor[t] = pre.tensor[t]

\* The caller has changed a value returned for a State of two placeholders
C12_Witness ==
  /\ Returned("clone_state_dict")
  /\ call.arg # 0
  /\ tensor[call.ret[call.arg]].data = "mutated"
  /\ Len(list[OwnList(call.self)]) = 2

----------------------------------------------------------------------------
(* C11: for every copy() made, the copy is another State with the owner of *)
(* the original and another list object; the copy's list holds the         *)
(* Placeholder objects the original held at the call, in the same order,   *)
(* also after promotions have appended to the original's list, whose first *)
(* entries stay those same objects; and when set_() through either of the  *)
(* two has returned, each of these placeholders, as reached through the    *)
(* other, is bound as set_() bound it.                                     *)
C11_CopyShallow ==
  \A c \in history.copies :
    LET mine   == state[c.orig].state_placeholders
        theirs == state[c.copy].state_placeholders
        K      == Len(c.content)
    IN  /\ c.copy # c.orig
        /\ state[c.copy].owner = state[c.orig].owner
        /\ theirs # mine
        /\ (Returned("copy") /\ call.ret = <<c.copy>>) =>
             theirs \notin DOMAIN pre.list
        /\ list[theirs] = c.content
        /\ Len(list[mine]) >= K
        /\ SubSeq(list[mine], 1, K) = c.content
        /\ (Returned("set_") /\ call.self \in {c.orig, c.copy}) =>
             LET other == IF call.self = c.orig THEN theirs ELSE mine
             IN  \A k \in 1..K :
                   LET was == pre.placeholder[list[other][k]]
                   IN  placeholder[list[other][k]].child =
                         IF was.id \in DOMAIN call.arg
                           THEN call.arg[was.id] ELSE was.child

\* After copy() a promotion has appended to the original's list, and a
\* set_() through the copy has rebound a placeholder of the original
C11_Witness ==
  \E c \in history.copies :
    /\ Returned("set_") /\ call.self = c.copy
    /\ Len(list[state[c.orig].state_placeholders]) > Len(c.content)
    /\ \E k \in 1..Len(c.content) :
         LET a == list[state[c.orig].state_placeholders][k]
         IN  placeholder[a].child # pre.placeholder[a].child

====
